---- MODULE Spec2Model ----
(***************************************************************************)
(* Model of gold_price_monitor.py: a Tk timer polls two price endpoints    *)
(* (zs, ms), restyles two labels against user thresholds, appends each     *)
(* reading to a per-day log file and keeps a bounded in-memory history.    *)
(*                                                                         *)
(* Strings are sequences of one-character strings.  A datetime is a count  *)
(* of seconds; strftime/strptime render and parse it as decimal digits.    *)
(***************************************************************************)
EXTENDS Integers, Sequences, FiniteSets, TLC

VARIABLES
    clock,                 \* datetime.now(), in seconds
    LOG_PATH,              \* the day whose log directory the handlers write to
    files,                 \* files[day][src]: the lines of <day>/<src>_gold_price.log
    data_history,          \* data_history[src] = [timestamp |-> <<..>>, price |-> <<..>>]
    notification_sent,     \* notification_sent[src][dir]
    label,                 \* label[src] = [text, bold, fg] of the price label
    entry,                 \* entry[src][dir]: text of the expectation Entry widgets
    pending,               \* number of root.after timers waiting to call fetch_data
    jsonErrorIsRequestException, \* which exception class response.json() raises
    ticks,                 \* number of fetch_data calls made so far
    edits,                 \* number of edits of the Entry widgets so far
    fetched,               \* what fetch_bank_data returned or raised in the last tick
    raised,                \* the exception class that ended the try body of the last tick
    popups,                \* the notifications show_notification displayed in the last tick
    logged,                \* logged[src]: lines <src>_logger has written since start
    stored                 \* stored[src]: samples save_data_to_history has stored since start

vars == <<clock, LOG_PATH, files, data_history, notification_sent, label, entry,
          pending, jsonErrorIsRequestException, ticks, edits, fetched, raised,
          popups, logged, stored>>

\* ------------------------------------------------------------------ bounds
MaxTicks == 2
MaxAlertTicks == 4
MaxEdits == 2
MaxFrameTicks == 3
MaxReadLines == 8

\* --------------------------------------------------------------- constants
MAX_DATA_POINTS == 240
INTERVAL_MS == 15000
SecondsPerDay == 24 * 60 * 60

Source == {"zs", "ms"}
Direction == {"sell", "buy"}
Days == 0 .. 1

\* ----------------------------------------------------------------- strings
Q == "\""
COMMA == ","
SPACE == " "
DigitChars == <<"0", "1", "2", "3", "4", "5", "6", "7", "8", "9">>
IsDigit(c) == \E i \in 1 .. 10 : DigitChars[i] = c
DigitVal(c) == (CHOOSE i \in 1 .. 10 : DigitChars[i] = c) - 1
IsDigits(s) == Len(s) > 0 /\ \A i \in 1 .. Len(s) : IsDigit(s[i])

RECURSIVE ParseNat(_)
ParseNat(s) ==
    IF Len(s) = 0 THEN 0
    ELSE 10 * ParseNat(SubSeq(s, 1, Len(s) - 1)) + DigitVal(s[Len(s)])

RECURSIVE NatStr(_)
NatStr(n) ==
    IF n < 10 THEN <<DigitChars[n + 1]>>
    ELSE Append(NatStr(n \div 10), DigitChars[(n % 10) + 1])

\* datetime.strftime('%Y-%m-%d %H:%M:%S') and the date part alone
Strftime(sec) == NatStr(sec)
DayOf(sec) == sec \div SecondsPerDay

\* datetime.strptime(s, '%Y-%m-%d %H:%M:%S'): a value or ValueError
Strptime(s) ==
    IF IsDigits(s) THEN [exc |-> "none", v |-> ParseNat(s)]
    ELSE [exc |-> "ValueError", v |-> 0]

\* ------------------------------------------------------------ price values
\* The JSON value under ['price']: a string or null.
StrPrice(s) == [k |-> "str", v |-> s]
NullPrice == [k |-> "null", v |-> <<>>]

\* '%s' % value and f"{value}"
PyStr(p) == IF p.k = "null" THEN <<"N", "o", "n", "e">> ELSE p.v

\* float(value): a number, ValueError for a string that is no number,
\* TypeError for None.
PyFloat(p) ==
    IF p.k = "null" THEN [exc |-> "TypeError", v |-> 0]
    ELSE IF IsDigits(p.v) THEN [exc |-> "none", v |-> ParseNat(p.v)]
    ELSE [exc |-> "ValueError", v |-> 0]

\* ------------------------------------------------------------ csv log line
\* The format with its two fields exchanged.
FormatLine_Swapped(time, price) ==
    <<Q>> \o PyStr(price) \o <<Q, COMMA, Q>> \o time \o <<Q>>

\* csv_formatter: '"%(time)s","%(price)s"'
FormatLine(time, price) ==
    <<Q>> \o time \o <<Q, COMMA, Q>> \o PyStr(price) \o <<Q>>

IsSpace(c) == c = SPACE

RECURSIVE LStrip(_)
LStrip(s) ==
    IF Len(s) > 0 /\ IsSpace(s[1]) THEN LStrip(Tail(s)) ELSE s

RECURSIVE RStrip(_)
RStrip(s) ==
    IF Len(s) > 0 /\ IsSpace(s[Len(s)]) THEN RStrip(SubSeq(s, 1, Len(s) - 1)) ELSE s

Strip(s) == RStrip(LStrip(s))

\* str.split('"')
RECURSIVE SplitQuote(_)
SplitQuote(s) ==
    IF \A i \in 1 .. Len(s) : s[i] # Q THEN <<s>>
    ELSE LET i == CHOOSE j \in 1 .. Len(s) :
                      s[j] = Q /\ \A k \in 1 .. j - 1 : s[k] # Q
         IN  <<SubSeq(s, 1, i - 1)>> \o SplitQuote(SubSeq(s, i + 1, Len(s)))

\* ------------------------------------------------------ read_data_from_log
\* One line of the loop body: the (timestamp, price) pair it appends, or a skip.
ParseLine(rawLine) ==
    LET line  == Strip(rawLine)
        parts == SplitQuote(line)
    IN  IF Len(line) = 0 THEN [keep |-> FALSE, timestamp |-> 0, price |-> 0]
        ELSE IF Len(parts) < 5 THEN [keep |-> FALSE, timestamp |-> 0, price |-> 0]
        ELSE LET t == Strptime(parts[2])
                 p == PyFloat(StrPrice(parts[4]))
             IN  IF t.exc # "none" \/ p.exc # "none"
                 THEN [keep |-> FALSE, timestamp |-> 0, price |-> 0]
                 ELSE [keep |-> TRUE, timestamp |-> t.v, price |-> p.v]

Kept(r) == r.keep

\* A function over 1 .. n as a list value.
AsList(f) == SubSeq(f, 1, Len(f))

\* parsed_data after the loop: the pairs of the lines kept, in file order.
ParsedData(lines) ==
    LET results == SelectSeq([i \in 1 .. Len(lines) |-> ParseLine(lines[i])], Kept)
    IN  AsList([i \in 1 .. Len(results) |-> <<results[i].timestamp, results[i].price>>])

\* list.sort(key=lambda x: x[0]) is stable: the place of element i is the
\* number of elements with a smaller key, or an equal key and an earlier place.
SortByTime(pairs) ==
    LET n    == Len(pairs)
        rank == AsList([i \in 1 .. n |->
                    1 + Cardinality({j \in 1 .. n :
                            \/ pairs[j][1] < pairs[i][1]
                            \/ pairs[j][1] = pairs[i][1] /\ j < i})])
    IN  AsList([k \in 1 .. n |-> pairs[CHOOSE i \in 1 .. n : rank[i] = k]])

\* parsed_data[-MAX_DATA_POINTS:] when there are more than MAX_DATA_POINTS
KeepNewest(pairs) ==
    IF Len(pairs) > MAX_DATA_POINTS
    THEN SubSeq(pairs, Len(pairs) - MAX_DATA_POINTS + 1, Len(pairs))
    ELSE pairs

read_data_from_log(lines) ==
    LET parsed_data == KeepNewest(SortByTime(ParsedData(lines)))
    IN  [timestamp |-> [i \in 1 .. Len(parsed_data) |-> parsed_data[i][1]],
         price     |-> [i \in 1 .. Len(parsed_data) |-> parsed_data[i][2]]]

\* ------------------------------------------------------- save_data_to_history
\* save_data_to_history without the truncation of lines 237-239.
save_data_to_history_KeepAll(h, price, timestamp) ==
    LET f == PyFloat(price)
    IN  IF f.exc # "none"
        THEN [h |-> [timestamp |-> Append(h.timestamp, timestamp), price |-> h.price],
              exc |-> f.exc]
        ELSE [h |-> [timestamp |-> Append(h.timestamp, timestamp),
                     price |-> Append(h.price, f.v)],
              exc |-> "none"]

\* The history after the call and the exception the call ends with.  The
\* timestamp is appended before float(price) is evaluated.
save_data_to_history(h, price, timestamp) ==
    LET ts == Append(h.timestamp, timestamp)
        f  == PyFloat(price)
    IN  IF f.exc # "none"
        THEN [h |-> [timestamp |-> ts, price |-> h.price], exc |-> f.exc]
        ELSE LET ps == Append(h.price, f.v)
             IN  IF Len(ts) > MAX_DATA_POINTS
                 THEN [h |-> [timestamp |-> Tail(ts), price |-> Tail(ps)],
                       exc |-> "none"]
                 ELSE [h |-> [timestamp |-> ts, price |-> ps], exc |-> "none"]

\* ------------------------------------------------------------ fetch_bank_data
\* What the endpoint answers: the request fails, the body is no JSON, a key
\* of the path is missing, a container of the path is null, or a reading.
Failure(kind) == [kind |-> kind, price |-> NullPrice, time |-> 0]
Reading(price, time) == [kind |-> "ok", price |-> price, time |-> time]
NotCalled == [kind |-> "not_called", exc |-> "none", price |-> NullPrice, datetime |-> <<>>]

\* The locals of fetch_data for one source: the result of fetch_bank_data and,
\* once both fetches have returned, the two Entry texts read by lines 359-362.
Locals(result, expect_value, buy_expect_value) ==
    [kind |-> result.kind, exc |-> result.exc, price |-> result.price,
     datetime |-> result.datetime,
     expect_value |-> expect_value, buy_expect_value |-> buy_expect_value]

fetch_bank_data(answer) ==
    IF answer.kind = "request"
    THEN [kind |-> "request", exc |-> "ConnectionError", price |-> NullPrice, datetime |-> <<>>]
    ELSE IF answer.kind = "json"
    THEN [kind |-> "json", exc |-> "JSONDecodeError", price |-> NullPrice, datetime |-> <<>>]
    ELSE IF answer.kind = "key"
    THEN [kind |-> "key", exc |-> "KeyError", price |-> NullPrice, datetime |-> <<>>]
    ELSE IF answer.kind = "null"
    THEN [kind |-> "null", exc |-> "TypeError", price |-> NullPrice, datetime |-> <<>>]
    ELSE [kind |-> "ok", exc |-> "none", price |-> answer.price,
          datetime |-> Strftime(answer.time \div 1000)]

\* isinstance(e, cls) for the classes fetch_data's except clauses name
IsInstance(exc, cls, jsonIsRequest) ==
    \/ exc = cls
    \/ exc = "ConnectionError" /\ cls = "RequestException"
    \/ exc = "JSONDecodeError" /\ cls = "ValueError"
    \/ exc = "JSONDecodeError" /\ cls = "RequestException" /\ jsonIsRequest

\* --------------------------------------------------------- update_price_label
PriceText(price, datetime) == [kind |-> "price", price |-> PyStr(price), datetime |-> datetime]
ErrorText(kind) == [kind |-> kind, price |-> <<>>, datetime |-> <<>>]
InitialText == [kind |-> "initial", price |-> <<>>, datetime |-> <<>>]

\* float(expect_value) if expect_value else None
Expectation(text) ==
    IF Len(text) = 0 THEN [exc |-> "none", set |-> FALSE, v |-> 0]
    ELSE LET f == PyFloat(StrPrice(text))
         IN  [exc |-> f.exc, set |-> f.exc = "none", v |-> f.v]

\* update_price_label with the buy comparison tried before the sell comparison.
LabelBranch_BuyFirst(current_price, expect_value, buy_expect_value) ==
    LET current    == PyFloat(current_price)
        expect     == Expectation(expect_value)
        buy_expect == Expectation(buy_expect_value)
    IN  IF current.exc = "TypeError" THEN "TypeError"
        ELSE IF current.exc = "ValueError" THEN "invalid"
        ELSE IF expect.exc # "none" \/ buy_expect.exc # "none" THEN "invalid"
        ELSE IF buy_expect.set /\ buy_expect.v >= current.v THEN "buy"
        ELSE IF expect.set /\ current.v >= expect.v THEN "sell"
        ELSE "other"

\* update_price_label with a strict buy comparison.
LabelBranch_StrictBuy(current_price, expect_value, buy_expect_value) ==
    LET current    == PyFloat(current_price)
        expect     == Expectation(expect_value)
        buy_expect == Expectation(buy_expect_value)
    IN  IF current.exc = "TypeError" THEN "TypeError"
        ELSE IF current.exc = "ValueError" THEN "invalid"
        ELSE IF expect.exc # "none" \/ buy_expect.exc # "none" THEN "invalid"
        ELSE IF expect.set /\ current.v >= expect.v THEN "sell"
        ELSE IF buy_expect.set /\ buy_expect.v > current.v THEN "buy"
        ELSE "other"

\* The branch update_price_label takes: "TypeError" (float(None) escapes the
\* function), "invalid" (the except ValueError clause), "sell", "buy", "other".
LabelBranch(current_price, expect_value, buy_expect_value) ==
    LET current    == PyFloat(current_price)
        expect     == Expectation(expect_value)
        buy_expect == Expectation(buy_expect_value)
    IN  IF current.exc = "TypeError" THEN "TypeError"
        ELSE IF current.exc = "ValueError" THEN "invalid"
        ELSE IF expect.exc # "none" \/ buy_expect.exc # "none" THEN "invalid"
        ELSE IF expect.set /\ current.v >= expect.v THEN "sell"
        ELSE IF buy_expect.set /\ buy_expect.v >= current.v THEN "buy"
        ELSE "other"

\* s is the program state inside fetch_data; s.exc the exception in flight.
update_price_label(s, src, current_price, datetime_str, expect_value, buy_expect_value) ==
    LET branch == LabelBranch(current_price, expect_value, buy_expect_value)
        text   == PriceText(current_price, datetime_str)
        sent   == s.notification_sent[src]
    IN  IF branch = "TypeError" THEN [s EXCEPT !.exc = "TypeError"]
        ELSE IF branch = "invalid"
        THEN [s EXCEPT !.label[src] = [text |-> text, bold |-> FALSE, fg |-> "black"]]
        ELSE IF branch = "sell"
        THEN [s EXCEPT !.label[src] = [text |-> text, bold |-> TRUE, fg |-> "red"],
                       !.popups = IF sent.sell THEN @ ELSE @ \cup {<<src, "sell">>},
                       !.notification_sent[src].sell = TRUE]
        ELSE IF branch = "buy"
        THEN [s EXCEPT !.label[src] = [text |-> text, bold |-> TRUE, fg |-> "green"],
                       !.popups = IF sent.buy THEN @ ELSE @ \cup {<<src, "buy">>},
                       !.notification_sent[src].buy = TRUE]
        ELSE [s EXCEPT !.label[src] = [text |-> text, bold |-> FALSE, fg |-> "black"],
                       !.notification_sent[src] = [sell |-> FALSE, buy |-> FALSE]]

\* -------------------------------------------------- check_and_update_log_path
\* A changed date moves both loggers to the files of the new day's directory.
check_and_update_log_path(s, now) ==
    IF DayOf(now) # s.LOG_PATH THEN [s EXCEPT !.LOG_PATH = DayOf(now)] ELSE s

\* <src>_logger.info(..., extra={'price': price, 'time': datetime_str}): the
\* logger's one FileHandler appends the formatted record to the current file.
logger_info(s, src, price, datetime_str) ==
    [s EXCEPT !.files[s.LOG_PATH][src] = Append(@, FormatLine(datetime_str, price)),
              !.logged[src] = @ + 1]

\* --------------------------------------------------------------- update_charts
\* update_bank_chart returns early for at most one point; otherwise ax.plot(x, y)
\* raises ValueError when x and y differ in length.
PlotRaises(h) == Len(h.timestamp) > 1 /\ Len(h.timestamp) # Len(h.price)

update_charts(s) ==
    IF PlotRaises(s.data_history["zs"]) \/ PlotRaises(s.data_history["ms"])
    THEN [s EXCEPT !.exc = "ValueError"]
    ELSE s

\* ------------------------------------------------------------------ fetch_data
\* The statements of the try body after the two fetches.  Each is skipped
\* when an exception is already in flight (s.exc).
LabelStep(s, src, r, entries) ==
    IF s.exc # "none" THEN s
    ELSE update_price_label(s, src, r.price, r.datetime,
                            entries[src].sell, entries[src].buy)

LogStep(s, src, r) ==
    IF s.exc # "none" THEN s ELSE logger_info(s, src, r.price, r.datetime)

SaveStep(s, src, r, now) ==
    IF s.exc # "none" THEN s
    ELSE LET res == save_data_to_history(s.data_history[src], r.price, now)
         IN  [s EXCEPT !.data_history[src] = res.h, !.exc = res.exc,
                       !.stored[src] = IF res.exc = "none" THEN @ + 1 ELSE @]

ChartStep(s) == IF s.exc # "none" THEN s ELSE update_charts(s)

\* Lines 365-385, in order.
AfterFetch(s, zs, ms, now, entries) ==
    ChartStep(
      SaveStep(
        SaveStep(
          LogStep(
            LogStep(
              LabelStep(LabelStep(s, "zs", zs, entries), "ms", ms, entries),
              "zs", zs),
            "ms", ms),
          "zs", zs, now),
        "ms", ms, now))

\* TryBody with the zs reading logged as soon as it is fetched, before the ms
\* fetch.
TryBody_LogFirst(s, zsAnswer, msAnswer, now, entries) ==
    LET s1 == check_and_update_log_path(s, now)
        zs == fetch_bank_data(zsAnswer)
        ms == fetch_bank_data(msAnswer)
    IN  IF zs.exc # "none"
        THEN [s1 EXCEPT !.exc = zs.exc, !.fetched["zs"] = Locals(zs, <<>>, <<>>)]
        ELSE IF ms.exc # "none"
        THEN [LogStep(s1, "zs", zs) EXCEPT
                        !.exc = ms.exc,
                        !.fetched["zs"] = Locals(zs, <<>>, <<>>),
                        !.fetched["ms"] = Locals(ms, <<>>, <<>>)]
        ELSE AfterFetch(
               [s1 EXCEPT
                  !.fetched["zs"] = Locals(zs, entries["zs"].sell, entries["zs"].buy),
                  !.fetched["ms"] = Locals(ms, entries["ms"].sell, entries["ms"].buy)],
               zs, ms, now, entries)

TryBody(s, zsAnswer, msAnswer, now, entries) ==
    LET s1 == check_and_update_log_path(s, now)
        zs == fetch_bank_data(zsAnswer)
        ms == fetch_bank_data(msAnswer)
    IN  IF zs.exc # "none"
        THEN [s1 EXCEPT !.exc = zs.exc, !.fetched["zs"] = Locals(zs, <<>>, <<>>)]
        ELSE IF ms.exc # "none"
        THEN [s1 EXCEPT !.exc = ms.exc,
                        !.fetched["zs"] = Locals(zs, <<>>, <<>>),
                        !.fetched["ms"] = Locals(ms, <<>>, <<>>)]
        ELSE AfterFetch(
               [s1 EXCEPT
                  !.fetched["zs"] = Locals(zs, entries["zs"].sell, entries["zs"].buy),
                  !.fetched["ms"] = Locals(ms, entries["ms"].sell, entries["ms"].buy)],
               zs, ms, now, entries)

\* The except clauses, tried in the order written.
ExceptClause(exc, jsonIsRequest) ==
    IF exc = "none" THEN "none"
    ELSE IF IsInstance(exc, "RequestException", jsonIsRequest) THEN "request_error"
    ELSE IF IsInstance(exc, "ValueError", jsonIsRequest) THEN "json_error"
    ELSE IF IsInstance(exc, "KeyError", jsonIsRequest) THEN "missing_data"
    ELSE "uncaught"

fetch_data(s, zsAnswer, msAnswer, now, entries, jsonIsRequest) ==
    LET b      == TryBody(s, zsAnswer, msAnswer, now, entries)
        clause == ExceptClause(b.exc, jsonIsRequest)
    IN  IF clause \in {"none", "uncaught"} THEN [b EXCEPT !.clause = clause]
        ELSE [b EXCEPT !.clause = clause,
                       !.label = [src \in Source |-> [@[src] EXCEPT !.text = ErrorText(clause)]]]

\* ------------------------------------------------------------------- start-up
\* Log files an earlier run of the same day can have left behind.
LogLine(sec, digits) == FormatLine(Strftime(sec), StrPrice(digits))

ShortLog ==
    <<LogLine(300, <<"7">>), <<SPACE>>, LogLine(200, <<"x">>), <<"x">>,
      LogLine(100, <<"1", "2">>)>>

FullLog(n) == [i \in 1 .. n |-> LogLine(100 + 15 * i, <<"5">>)]

StartUps ==
    { [clock |-> 36000, zs |-> <<>>, ms |-> <<>>],
      [clock |-> 86390, zs |-> ShortLog, ms |-> <<>>],
      [clock |-> 36000, zs |-> FullLog(MAX_DATA_POINTS),
                        ms |-> FullLog(MAX_DATA_POINTS + 1)] }

\* Module level, lines 72-81, 100-101, 242-247, 438, 721-738.
StartFrom(u, jsonIsRequest) ==
    /\ clock = u.clock
    /\ LOG_PATH = DayOf(u.clock)
    /\ files = [d \in Days |-> [src \in Source |->
                   IF d = DayOf(u.clock) THEN u[src] ELSE <<>>]]
    /\ data_history = [src \in Source |-> read_data_from_log(u[src])]
    /\ notification_sent = [src \in Source |-> [sell |-> FALSE, buy |-> FALSE]]
    /\ label = [src \in Source |-> [text |-> InitialText, bold |-> FALSE, fg |-> "black"]]
    /\ entry = [src \in Source |-> [sell |-> <<>>, buy |-> <<>>]]
    /\ pending = 1
    /\ jsonErrorIsRequestException = jsonIsRequest
    /\ ticks = 0
    /\ edits = 0
    /\ fetched = [src \in Source |-> Locals(NotCalled, <<>>, <<>>)]
    /\ raised = "none"
    /\ popups = {}
    /\ logged = [src \in Source |-> 0]
    /\ stored = [src \in Source |-> 0]

Init == \E u \in StartUps, j \in BOOLEAN : StartFrom(u, j)

InitAlert == StartFrom([clock |-> 36000, zs |-> <<>>, ms |-> <<>>], TRUE)

\* --------------------------------------------------------------------- actions
MainPrices == {StrPrice(<<"5">>), StrPrice(<<"x">>), NullPrice}
AlertPrices == {StrPrice(<<"1">>), StrPrice(<<"3">>)}
EntryTexts == {<<>>, <<"1">>, <<"3">>, <<"x">>}

\* The vendor's 'time' field: milliseconds since the epoch.
VendorTime(now) == now * 1000 + 250

MainAnswers(now) ==
    {Failure(k) : k \in {"request", "json", "key", "null"}}
        \cup {Reading(p, VendorTime(now)) : p \in MainPrices}

\* The two sources quote different prices.
AlertAnswers(now) ==
    { [zs |-> Reading(p, VendorTime(now)), ms |-> Reading(q, VendorTime(now))] :
        <<p, q>> \in {<<a, b>> \in AlertPrices \X AlertPrices : a # b} }

\* One call of fetch_data by the timer (the first one by line 738), and the
\* root.after that follows the try statement.
Tick(zsAnswer, msAnswer) ==
    /\ pending = 1
    /\ LET s == fetch_data([LOG_PATH |-> LOG_PATH, files |-> files,
                            data_history |-> data_history,
                            notification_sent |-> notification_sent,
                            label |-> label, popups |-> {},
                            logged |-> logged, stored |-> stored,
                            fetched |-> [src \in Source |-> Locals(NotCalled, <<>>, <<>>)],
                            exc |-> "none", clause |-> "none"],
                           zsAnswer, msAnswer, clock, entry,
                           jsonErrorIsRequestException)
       IN  /\ LOG_PATH' = s.LOG_PATH
           /\ files' = s.files
           /\ data_history' = s.data_history
           /\ notification_sent' = s.notification_sent
           /\ label' = s.label
           /\ popups' = s.popups
           /\ logged' = s.logged
           /\ stored' = s.stored
           /\ fetched' = s.fetched
           /\ raised' = s.exc
           /\ pending' = IF s.clause = "uncaught" THEN 0 ELSE 1
    /\ clock' = clock + INTERVAL_MS \div 1000
    /\ ticks' = ticks + 1
    /\ UNCHANGED <<entry, edits, jsonErrorIsRequestException>>

Poll ==
    /\ ticks < MaxTicks
    /\ \E zsAnswer \in MainAnswers(clock), msAnswer \in MainAnswers(clock) :
           Tick(zsAnswer, msAnswer)

PollAlert ==
    /\ ticks < MaxAlertTicks
    /\ \E answer \in AlertAnswers(clock) : Tick(answer.zs, answer.ms)

\* The user types into one of the four expectation Entry widgets.  Events are
\* served by root.mainloop(), which starts after the first fetch_data call.
SetEntry ==
    \E src \in Source, dir \in Direction, text \in EntryTexts :
        /\ ticks >= 1
        /\ edits < MaxEdits
        /\ entry[src][dir] # text
        /\ entry' = [entry EXCEPT ![src][dir] = text]
        /\ edits' = edits + 1
        /\ UNCHANGED <<clock, LOG_PATH, files, data_history, notification_sent,
                       label, pending, jsonErrorIsRequestException, ticks,
                       fetched, raised, popups, logged, stored>>

Next == Poll
Spec == Init /\ [][Next]_vars

NextAlert == PollAlert \/ SetEntry
SpecAlert == InitAlert /\ [][NextAlert]_vars

\* Thresholds, alerts and failing fetches together: the run starts fifteen
\* seconds before midnight, so its second tick is the first of a new day.
InitFrame ==
    \E j \in BOOLEAN : StartFrom([clock |-> 86390, zs |-> <<>>, ms |-> <<>>], j)

\* In each tick at most one fetch fails, and two readings differ in price.
FrameAnswers(now) ==
    LET failures == {Failure(k) : k \in {"request", "json", "key"}}
        readings == {Reading(p, VendorTime(now)) : p \in AlertPrices}
    IN  { a \in [zs : failures \cup readings, ms : failures \cup readings] :
            /\ a.zs \in readings \/ a.ms \in readings
            /\ a.zs # a.ms }

PollFrame ==
    /\ ticks < MaxFrameTicks
    /\ \E answer \in FrameAnswers(clock) : Tick(answer.zs, answer.ms)

\* The user enters a threshold the quoted prices can reach: 3 to sell at, 1 to
\* buy at.
SetThreshold ==
    \E src \in Source, dir \in Direction :
        /\ ticks >= 1
        /\ edits < MaxEdits
        /\ entry[src][dir] = <<>>
        /\ entry' = [entry EXCEPT ![src][dir] = IF dir = "sell" THEN <<"3">> ELSE <<"1">>]
        /\ edits' = edits + 1
        /\ UNCHANGED <<clock, LOG_PATH, files, data_history, notification_sent,
                       label, pending, jsonErrorIsRequestException, ticks,
                       fetched, raised, popups, logged, stored>>

NextFrame == PollFrame \/ SetThreshold
SpecFrame == InitFrame /\ [][NextFrame]_vars

\* ---------------------------------------------------------------------- claims
\* A step that is one call of fetch_data.
TickStep == ticks' = ticks + 1

\* Both calls of fetch_bank_data of the last tick returned a reading.
BothFetched == fetched["zs"].kind = "ok" /\ fetched["ms"].kind = "ok"

\* The first fetch of the last tick that failed, if one did.
FailedFetch ==
    IF fetched["zs"].kind \notin {"ok", "not_called"} THEN fetched["zs"].kind
    ELSE IF fetched["ms"].kind \notin {"ok", "not_called"} THEN fetched["ms"].kind
    ELSE "none"

\* C1: in every reachable state each source's history holds at most
\* MAX_DATA_POINTS samples (neither of its two lists is longer).
C1_HistoryBounded ==
    \A src \in Source :
        /\ Len(data_history[src].timestamp) <= MAX_DATA_POINTS
        /\ Len(data_history[src].price) <= MAX_DATA_POINTS

\* C2: in every reachable state the timestamp list and the price list of a
\* source have the same length, also after a tick whose price is no number.
C2_ParallelLists ==
    \A src \in Source :
        Len(data_history[src].timestamp) = Len(data_history[src].price)

\* C3: when a fetch of the last tick failed because the request failed, the
\* body was no JSON or a key was missing, no exception left fetch_data (the
\* next tick is scheduled) and both labels show the error string of that
\* failure.
ErrorStringOf(kind) ==
    IF kind = "request" THEN "request_error"
    ELSE IF kind = "json" THEN "json_error"
    ELSE "missing_data"

C3_FailureShown ==
    FailedFetch \in {"request", "json", "key"} =>
        /\ pending = 1
        /\ \A src \in Source : label[src].text.kind = ErrorStringOf(FailedFetch)

\* C4: every tick, failed or not, ends by scheduling the next one, so exactly
\* one tick is pending in every state between ticks.
C4_OneTickPending == pending = 1

\* C5: a tick in which both fetches return a reading appends exactly the line
\* of that reading to each source's log file of the day of the tick, and
\* changes no other line of any log file.
C5_EveryReadingLogged ==
    [][(TickStep /\ BothFetched') =>
         files' = [files EXCEPT
                     ![DayOf(clock)] = [src \in Source |->
                         Append(@[src], FormatLine(fetched'[src].datetime,
                                                   fetched'[src].price))]]]_vars

\* The tick of this step called save_data_to_history for src with a price that
\* float() converts: both fetches returned, neither price is null, and the
\* call for zs, which comes first, returned.
SampleSaved(src) ==
    /\ TickStep
    /\ BothFetched'
    /\ \A other \in Source : PyFloat(fetched'[other].price).exc # "TypeError"
    /\ PyFloat(fetched'[src].price).exc = "none"
    /\ src = "ms" => PyFloat(fetched'["zs"].price).exc = "none"

\* old with its first element removed and x placed last, or old with x placed last.
ShiftedIn(old, new, x) ==
    /\ Len(new) = Len(old)
    /\ \A i \in 1 .. Len(old) :
           new[i] = IF i < Len(old) THEN old[i + 1] ELSE x

AppendedTo(old, new, x) ==
    /\ Len(new) = Len(old) + 1
    /\ \A i \in 1 .. Len(old) : new[i] = old[i]
    /\ new[Len(new)] = x

\* C6: a call of save_data_to_history with a sample (a price that converts to
\* a number) on a history at capacity removes exactly the oldest entry, keeps
\* the others in order and puts the new sample last; below capacity it only
\* appends the sample.
C6_FifoTruncation ==
    [][\A src \in Source :
         SampleSaved(src) =>
            LET old == data_history[src]
                new == data_history'[src]
                x   == PyFloat(fetched'[src].price).v
            IN  IF Len(old.timestamp) >= MAX_DATA_POINTS
                THEN /\ ShiftedIn(old.timestamp, new.timestamp, clock)
                     /\ ShiftedIn(old.price, new.price, x)
                ELSE /\ AppendedTo(old.timestamp, new.timestamp, clock)
                     /\ AppendedTo(old.price, new.price, x)]_vars

\* A history that was at capacity has taken in the sample of the last tick:
\* its oldest entry (time 115) is gone and the newest is the tick's.
C6_Witness ==
    /\ ticks = 1
    /\ BothFetched
    /\ PyFloat(fetched["zs"].price).exc = "none"
    /\ Len(data_history["zs"].timestamp) = MAX_DATA_POINTS
    /\ Len(data_history["zs"].price) = MAX_DATA_POINTS
    /\ data_history["zs"].timestamp[1] = 130
    /\ data_history["zs"].timestamp[MAX_DATA_POINTS] + INTERVAL_MS \div 1000 = clock

\* The sample a logged reading stands for.
SampleOf(r) == <<ParseNat(r.datetime), PyFloat(r.price).v>>

\* read_data_from_log(lines) returns the sample <<timestamp, price>>.
Returns(lines, sample) ==
    LET data == read_data_from_log(lines)
    IN  \E i \in 1 .. Len(data.timestamp) :
            data.timestamp[i] = sample[1] /\ data.price[i] = sample[2]

LabelUpdated(src) ==
    /\ BothFetched
    /\ PyFloat(fetched[src].price).exc = "none"
    /\ src = "ms" => PyFloat(fetched["zs"].price).exc # "TypeError"

\* What the tick read from an Entry widget: nothing, a number, or other text.
Entered(text) == Len(text) > 0 /\ IsDigits(text)
Blank(text) == Len(text) = 0

SellReached(src) ==
    /\ Entered(fetched[src].expect_value)
    /\ ParseNat(PyStr(fetched[src].price)) >= ParseNat(fetched[src].expect_value)

BuyReached(src) ==
    /\ Entered(fetched[src].buy_expect_value)
    /\ ParseNat(PyStr(fetched[src].price)) <= ParseNat(fetched[src].buy_expect_value)

Shown(src, colour) == label[src].fg = colour /\ label[src].bold

\* C8 as claimed: after a successful tick, a source whose price reached the
\* entered sell expectation has a red bold label, whatever the buy field holds.
C8_SellAlwaysRed ==
    \A src \in Source : (LabelUpdated(src) /\ SellReached(src)) => Shown(src, "red")

\* C8 amended: after a successful tick, a source whose price reached the
\* entered sell expectation has a red bold label, whenever the buy field is
\* empty or holds a number.
C8_SellRedUnlessBuyInvalid ==
    \A src \in Source :
        (/\ LabelUpdated(src)
         /\ SellReached(src)
         /\ Blank(fetched[src].buy_expect_value) \/ Entered(fetched[src].buy_expect_value))
            => Shown(src, "red")

\* The price reached the sell expectation while the buy expectation was
\* reached too, and the label is red.
C8_Witness ==
    /\ LabelUpdated("zs")
    /\ SellReached("zs")
    /\ BuyReached("zs")
    /\ Shown("zs", "red")

\* C9 as claimed: after a successful tick, a source whose price is at or below
\* the entered buy expectation has a green bold label, whatever the sell
\* field holds.
C9_BuyAlwaysGreen ==
    \A src \in Source : (LabelUpdated(src) /\ BuyReached(src)) => Shown(src, "green")

\* C9 amended: after a successful tick, a source whose price is at or below
\* the entered buy expectation has a green bold label, whenever the sell field
\* is empty or holds a number greater than the price.
C9_BuyGreenUnlessSell ==
    \A src \in Source :
        (/\ LabelUpdated(src)
         /\ BuyReached(src)
         /\ \/ Blank(fetched[src].expect_value)
            \/ Entered(fetched[src].expect_value) /\ ~SellReached(src))
            => Shown(src, "green")

\* The price equals the buy expectation, a sell expectation above it is
\* entered, and the label is green.
C9_Witness ==
    /\ LabelUpdated("ms")
    /\ BuyReached("ms")
    /\ Entered(fetched["ms"].expect_value)
    /\ PyStr(fetched["ms"].price) = fetched["ms"].buy_expect_value
    /\ Shown("ms", "green")

\* C10: a tick shows the pop-up of a source and direction exactly when the
\* condition triggers on that tick and did not trigger on the tick before
\* (the label was not already in that direction's colour): once per run of
\* ticks on which it holds, and again at the start of every later run.
ColourOf(dir) == IF dir = "sell" THEN "red" ELSE "green"

C10_NotifiedOncePerRun ==
    [][TickStep =>
         \A src \in Source, dir \in Direction :
             (<<src, dir>> \in popups') <=>
                 (label'[src].fg = ColourOf(dir) /\ label[src].fg # ColourOf(dir))]_vars

\* C11: a tick in which a fetch fails because the request failed, the body was
\* no JSON or a key was missing leaves both histories, every log file and all
\* notification flags as they were; a reading fetched from zs is neither
\* logged nor stored when the fetch from ms fails.
C11_FailedTickChangesNothing ==
    [][(TickStep /\ FailedFetch' \in {"request", "json", "key"}) =>
         UNCHANGED <<data_history, files, notification_sent>>]_vars

\* After a tick that stored samples and raised an alert, zs answered with a
\* reading and the fetch from ms failed.
C11_Witness ==
    /\ fetched["zs"].kind = "ok"
    /\ fetched["ms"].kind \in {"request", "json", "key"}
    /\ Len(data_history["zs"].price) > 0
    /\ Len(files[LOG_PATH]["zs"]) > 0
    /\ \E src \in Source, dir \in Direction : notification_sent[src][dir]

\* C12: in every reachable state, for each source the number of lines written
\* to its log since start equals the number of samples stored in its history
\* since start, and both sources have stored the same number of samples.
C12_LogAndHistoryInStep ==
    /\ \A src \in Source : logged[src] = stored[src]
    /\ stored["zs"] = stored["ms"]

====
